---- MODULE Spec2Model ----
(***************************************************************************)
(* Model of examples/cute/tutorial/tiled_copy_sycl.cpp: the host driver    *)
(* main(), the two device kernels copy_kernel and copy_kernel_vectorized,  *)
(* and the host verification loop.                                         *)
(*                                                                         *)
(* A device buffer is a function from linear element offsets to values.    *)
(* A lane is <<x, y, tid>>: work group (x, y), local id tid.  Each lane    *)
(* runs its kernel body in two steps, copy(thr_tile_S, fragment) and       *)
(* copy(fragment, thr_tile_D); lanes interleave in any order.              *)
(***************************************************************************)
EXTENDS Integers, Sequences, FiniteSets, TLC

VARIABLES
  cfg,        \* shapes: tensor (m, n), block (M, N), thread (TM, TN), vector (VM, VN)
  pc,         \* position of the host in main
  kernel,     \* the kernel body the launch runs
  h_S, h_D,   \* host vectors
  d_S, d_D,   \* device buffers
  d_N,        \* result buffer kept from the copy_kernel launch (kernel comparison)
  lanes,      \* lane -> [pc, frag]: position in the kernel body and register fragment
  gridDim,    \* <<m', n'>> of the launch
  blockDim,   \* work-group size of the launch
  launches,   \* number of kernel invocations dispatched
  log,        \* memory accesses issued by the lanes
  i,          \* index of the verification loop
  errors,     \* mismatch counter of the verification loop
  out,        \* lines written to cout / cerr
  exitCode,   \* return value of main (Running while main has not returned)
  access      \* the vectorized access under inspection (builtin configuration)

vars == <<cfg, pc, kernel, h_S, h_D, d_S, d_D, d_N, lanes, gridDim, blockDim,
          launches, log, i, errors, out, exitCode, access>>

----------------------------------------------------------------------------
\* Program constants

kErrorLimit == 10

TensorM == 256
TensorN == 512
BlockM == 128
BlockN == 64
ThrM == 32
ThrN == 8
VecM == 4
VecN == 1

\* Bounds of the explored family of configurations

MaxThr == 2
MaxVec == 2
MaxRep == 2
MaxElems == 24
MaxLanes == 6
VerifyLen == 12

Running == "running"
NoLanes == [l \in {} |-> 0]

\* The configuration built into main
BuiltinCfg ==
  [m |-> TensorM, n |-> TensorN, M |-> BlockM, N |-> BlockN,
   TM |-> ThrM, TN |-> ThrN, VM |-> VecM, VN |-> VecN]

----------------------------------------------------------------------------
\* Shapes and layouts

\* size(tensor_shape)
Size(c) == c.m * c.n

\* make_layout(tensor_shape): column-major, coordinate (r, s) -> r + s * m
Idx(c, r, s) == r + s * c.m

\* evenly_divides(tensor_shape, block_shape)
evenly_divides(c) == (c.m % c.M = 0) /\ (c.n % c.N = 0)

\* The first divisibility test of main: true when the shape is rejected
ShapeRejectedBad(c) == c.m % c.M # 0
ShapeRejected(c) == (c.m % c.M # 0) \/ (c.n % c.N # 0)

\* tiled_divide: ((M, N), m', n'); modes 1 and 2 count the tiles
TilesM(c) == c.m \div c.M
TilesN(c) == c.n \div c.N

\* gridDim = dim3(size<1>(tiled_tensor_D), size<2>(tiled_tensor_D))
GridDim(c) == <<TilesM(c), TilesN(c)>>

\* blockDim = dim3(size(thr_layout))
BlockDimBad(c) == c.TM
BlockDim(c) == c.TM * c.TN

\* The lanes of a launch with the given grid and work-group size
LaunchLanes(g, b) ==
  {<<x, y, t>> : x \in 0..(g[1] - 1), y \in 0..(g[2] - 1), t \in 0..(b - 1)}

\* Tile slice S(make_coord(_,_), work_group_id::x, work_group_id::y):
\* tile coordinate (a, b) of work group (x, y) -> linear offset
TileOffsetBad(c, x, y, a, b) == Idx(c, x * c.M + a, b)
TileOffset(c, x, y, a, b) == Idx(c, x * c.M + a, y * c.N + b)

\* thr_layout is column-major: local id -> (thread row, thread column)
ThrCoord(c, tid) == <<tid % c.TM, tid \div c.TM>>

\* local_partition(tile, ThreadLayout{}, tid): the (ThrValM, ThrValN) tile
\* coordinates of lane tid, striped by the thread arrangement
NaivePos(c, tid) ==
  LET tc == ThrCoord(c, tid)
      vm == c.M \div c.TM
      vn == c.N \div c.TN
  IN  [k \in 1..(vm * vn) |->
         <<tc[1] + c.TM * ((k - 1) % vm), tc[2] + c.TN * ((k - 1) \div vm)>>]

\* thr_copy.partition_S / partition_D of make_tiled_copy(Atom, thr, vec):
\* (CopyOp, CopyM, CopyN); the tiler is the raked product of thread and vector
\* layout, so thread row tm owns rows tm*VM .. tm*VM + VM-1 of each tiler block
VecPos(c, tid) ==
  LET tc == ThrCoord(c, tid)
      vs == c.VM * c.VN
      cm == c.M \div (c.TM * c.VM)
      cn == c.N \div (c.TN * c.VN)
  IN  [k \in 1..(vs * cm * cn) |->
         LET v == (k - 1) % vs
             p == ((k - 1) \div vs) % cm
             q == (k - 1) \div (vs * cm)
         IN  <<tc[1] * c.VM + (v % c.VM) + c.TM * c.VM * p,
               tc[2] * c.VN + (v \div c.VM) + c.TN * c.VN * q>>]

ThrPos(c, kn, tid) ==
  IF kn = "copy_kernel" THEN NaivePos(c, tid) ELSE VecPos(c, tid)

\* Linear offsets of thr_tile_S / thr_tile_D of lane l, in copy order
ThrOffsets(c, kn, l) ==
  LET pos == ThrPos(c, kn, l[3])
  IN  [k \in 1..Len(pos) |-> TileOffset(c, l[1], l[2], pos[k][1], pos[k][2])]

\* Number of elements one memory access moves: 1, or size(VecLayout{})
AccessSize(c, kn) == IF kn = "copy_kernel" THEN 1 ELSE c.VM * c.VN

----------------------------------------------------------------------------
\* Device: kernel bodies

\* copy(thr_tile_S, fragment)
LoadedBad(offs, buf) == [k \in 1..Len(offs) |-> buf[offs[1]]]
Loaded(offs, buf) == [k \in 1..Len(offs) |-> buf[offs[k]]]

\* copy(fragment, thr_tile_D): element k of the fragment goes to offset offs[k]
StoredBad(offs, frag, buf) ==
  [o \in DOMAIN buf |->
     IF \E k \in 2..Len(offs) : offs[k] = o
       THEN frag[CHOOSE k \in 2..Len(offs) :
                   offs[k] = o /\ \A j \in (k + 1)..Len(offs) : offs[j] # o]
       ELSE buf[o]]
Stored(offs, frag, buf) ==
  [o \in DOMAIN buf |->
     IF \E k \in 1..Len(offs) : offs[k] = o
       THEN frag[CHOOSE k \in 1..Len(offs) :
                   offs[k] = o /\ \A j \in (k + 1)..Len(offs) : offs[j] # o]
       ELSE buf[o]]

LogEntries(kn, l, kind, buf, offs) ==
  {[kernel |-> kn, lane |-> l, kind |-> kind, buf |-> buf, off |-> offs[k]] :
     k \in 1..Len(offs)}

LaneLoad(l) ==
  /\ pc = "wait"
  /\ l \in DOMAIN lanes
  /\ lanes[l].pc = "load"
  /\ LET offs == ThrOffsets(cfg, kernel, l)
     IN  /\ lanes' = [lanes EXCEPT ![l] = [pc |-> "store", frag |-> Loaded(offs, d_S)]]
         /\ log' = log \cup LogEntries(kernel, l, "read", "S", offs)
  /\ UNCHANGED <<cfg, pc, kernel, h_S, h_D, d_S, d_D, d_N, gridDim, blockDim,
                 launches, i, errors, out, exitCode, access>>

LaneStore(l) ==
  /\ pc = "wait"
  /\ l \in DOMAIN lanes
  /\ lanes[l].pc = "store"
  /\ LET offs == ThrOffsets(cfg, kernel, l)
     IN  /\ d_D' = Stored(offs, lanes[l].frag, d_D)
         /\ log' = log \cup LogEntries(kernel, l, "write", "D", offs)
  /\ lanes' = [lanes EXCEPT ![l] = [pc |-> "done", frag |-> << >>]]
  /\ UNCHANGED <<cfg, pc, kernel, h_S, h_D, d_S, d_N, gridDim, blockDim,
                 launches, i, errors, out, exitCode, access>>

AllLanesDone == \A l \in DOMAIN lanes : lanes[l].pc = "done"

----------------------------------------------------------------------------
\* Host: main

Msg(kind) == [kind |-> kind, idx |-> 0 - 1, s |-> 0, d |-> 0]

\* h_S[i] = i; memcpy h_S -> d_S, h_D -> d_D
HostInitBad ==
  /\ pc = "init"
  /\ h_S' = [j \in 0..(Size(cfg) - 1) |-> j]
  /\ d_S' = h_S
  /\ d_D' = h_D
  /\ pc' = "check"
  /\ UNCHANGED <<cfg, kernel, h_D, d_N, lanes, gridDim, blockDim, launches, log,
                 i, errors, out, exitCode, access>>
HostInit ==
  /\ pc = "init"
  /\ h_S' = [j \in 0..(Size(cfg) - 1) |-> j]
  /\ d_S' = h_S'
  /\ d_D' = h_D
  /\ pc' = "check"
  /\ UNCHANGED <<cfg, kernel, h_D, d_N, lanes, gridDim, blockDim, launches, log,
                 i, errors, out, exitCode, access>>

\* if ((size<0>(tensor_shape) % size<0>(block_shape)) || ...) return -1
ShapeCheck ==
  /\ pc = "check"
  /\ IF ShapeRejected(cfg)
       THEN /\ out' = Append(out, Msg("The tensor shape must be divisible by the block shape."))
            /\ exitCode' = 0 - 1
            /\ pc' = "exit"
       ELSE /\ pc' = "check2"
            /\ UNCHANGED <<out, exitCode>>
  /\ UNCHANGED <<cfg, kernel, h_S, h_D, d_S, d_D, d_N, lanes, gridDim, blockDim,
                 launches, log, i, errors, access>>

\* if (not evenly_divides(tensor_shape, block_shape)) return -1
EvenlyDividesCheck ==
  /\ pc = "check2"
  /\ IF ~evenly_divides(cfg)
       THEN /\ out' = Append(out, Msg("Expected the block_shape to evenly divide the tensor shape."))
            /\ exitCode' = 0 - 1
            /\ pc' = "exit"
       ELSE /\ pc' = "launch"
            /\ UNCHANGED <<out, exitCode>>
  /\ UNCHANGED <<cfg, kernel, h_S, h_D, d_S, d_D, d_N, lanes, gridDim, blockDim,
                 launches, log, i, errors, access>>

\* tiled_divide, gridDim, blockDim, syclcompat::launch<copy_kernel_vectorized>
Launch ==
  /\ pc = "launch"
  /\ gridDim' = GridDim(cfg)
  /\ blockDim' = BlockDim(cfg)
  /\ lanes' = [l \in LaunchLanes(gridDim', blockDim') |-> [pc |-> "load", frag |-> << >>]]
  /\ launches' = launches + 1
  /\ pc' = "wait"
  /\ UNCHANGED <<cfg, kernel, h_S, h_D, d_S, d_D, d_N, log, i, errors, out,
                 exitCode, access>>

\* syclcompat::wait_and_throw() returns once the kernel has completed
WaitReadyBad == TRUE
WaitReady == AllLanesDone

Wait ==
  /\ pc = "wait"
  /\ WaitReady
  /\ pc' = "copyback"
  /\ UNCHANGED <<cfg, kernel, h_S, h_D, d_S, d_D, d_N, lanes, gridDim, blockDim,
                 launches, log, i, errors, out, exitCode, access>>

\* memcpy d_D -> h_D; errors = 0; i = 0
CopyBack ==
  /\ pc = "copyback"
  /\ h_D' = d_D
  /\ errors' = 0
  /\ i' = 0
  /\ pc' = "verify"
  /\ UNCHANGED <<cfg, kernel, h_S, d_S, d_D, d_N, lanes, gridDim, blockDim,
                 launches, log, out, exitCode, access>>

\* ++errors >= kErrorLimit
LimitReachedBad(e) == e > kErrorLimit
LimitReached(e) == e >= kErrorLimit

\* One iteration of the verification loop
VerifyStep ==
  /\ pc = "verify"
  /\ i < Size(cfg)
  /\ IF h_S[i] # h_D[i]
       THEN /\ errors' = errors + 1
            /\ IF LimitReached(errors')
                 THEN /\ out' = out \o <<[kind |-> "Error", idx |-> i, s |-> h_S[i], d |-> h_D[i]],
                                         Msg("Aborting")>>
                      /\ exitCode' = 0 - 1
                      /\ pc' = "exit"
                      /\ i' = i
                 ELSE /\ out' = Append(out, [kind |-> "Error", idx |-> i, s |-> h_S[i], d |-> h_D[i]])
                      /\ i' = i + 1
                      /\ UNCHANGED <<pc, exitCode>>
       ELSE /\ i' = i + 1
            /\ UNCHANGED <<errors, out, pc, exitCode>>
  /\ UNCHANGED <<cfg, kernel, h_S, h_D, d_S, d_D, d_N, lanes, gridDim, blockDim,
                 launches, log, access>>

\* Loop exhausted: "Success."; return 0
VerifyDone ==
  /\ pc = "verify"
  /\ i >= Size(cfg)
  /\ out' = Append(out, Msg("Success."))
  /\ exitCode' = 0
  /\ pc' = "exit"
  /\ UNCHANGED <<cfg, kernel, h_S, h_D, d_S, d_D, d_N, lanes, gridDim, blockDim,
                 launches, log, i, errors, access>>

----------------------------------------------------------------------------
\* Specification of main over a family of static configurations

\* Static shapes for which copy_kernel_vectorized is well formed: the tile is
\* a whole number of (thread x vector) tiler blocks
StaticCfgs ==
  {[M |-> tm * vm * rm, N |-> tn * VecN * rn, TM |-> tm, TN |-> tn, VM |-> vm, VN |-> VecN] :
     tm \in 1..MaxThr, tn \in 1..MaxThr, vm \in 1..MaxVec,
     rm \in 1..MaxRep, rn \in 1..MaxRep}

WithShape(s, m, n) ==
  [m |-> m, n |-> n, M |-> s.M, N |-> s.N, TM |-> s.TM, TN |-> s.TN, VM |-> s.VM, VN |-> s.VN]

NumLanes(c) == TilesM(c) * TilesN(c) * BlockDim(c)

Configs ==
  {c \in {WithShape(s, m, n) : s \in StaticCfgs, m \in 1..MaxElems, n \in 1..MaxElems} :
     /\ Size(c) <= MaxElems
     /\ evenly_divides(c) => NumLanes(c) <= MaxLanes}

Zeros(c) == [j \in 0..(Size(c) - 1) |-> 0]
Uninit(c) == {Zeros(c), [j \in 0..(Size(c) - 1) |-> 0 - 1]}

Init ==
  /\ cfg \in Configs
  /\ pc = "init"
  /\ kernel = "copy_kernel_vectorized"
  /\ h_S = Zeros(cfg)
  /\ h_D = Zeros(cfg)
  /\ d_S \in Uninit(cfg)
  /\ d_D \in Uninit(cfg)
  /\ d_N = << >>
  /\ lanes = NoLanes
  /\ gridDim = <<0, 0>>
  /\ blockDim = 0
  /\ launches = 0
  /\ log = {}
  /\ i = 0
  /\ errors = 0
  /\ out = << >>
  /\ exitCode = Running
  /\ access = << >>

Next ==
  \/ HostInit
  \/ ShapeCheck
  \/ EvenlyDividesCheck
  \/ Launch
  \/ \E l \in DOMAIN lanes : LaneLoad(l)
  \/ \E l \in DOMAIN lanes : LaneStore(l)
  \/ Wait
  \/ CopyBack
  \/ VerifyStep
  \/ VerifyDone

Spec == Init /\ [][Next]_vars

----------------------------------------------------------------------------
\* Specification of the two kernels: copy_kernel, then copy_kernel_vectorized,
\* launched on the same source with a fresh destination each

KernelConfigs == {c \in Configs : evenly_divides(c)}

KernelInit ==
  /\ cfg \in KernelConfigs
  /\ pc = "launch"
  /\ kernel = "copy_kernel"
  /\ h_S = << >>
  /\ h_D = << >>
  /\ d_S = [j \in 0..(Size(cfg) - 1) |-> j + 1]
  /\ d_D = Zeros(cfg)
  /\ d_N = << >>
  /\ lanes = NoLanes
  /\ gridDim = <<0, 0>>
  /\ blockDim = 0
  /\ launches = 0
  /\ log = {}
  /\ i = 0
  /\ errors = 0
  /\ out = << >>
  /\ exitCode = Running
  /\ access = << >>

\* copy_kernel has completed: keep its result and launch the vectorized kernel
\* on a zeroed destination
KernelSwitch ==
  /\ pc = "wait"
  /\ kernel = "copy_kernel"
  /\ AllLanesDone
  /\ d_N' = d_D
  /\ d_D' = Zeros(cfg)
  /\ kernel' = "copy_kernel_vectorized"
  /\ lanes' = NoLanes
  /\ pc' = "launch"
  /\ UNCHANGED <<cfg, h_S, h_D, d_S, gridDim, blockDim, launches, log, i, errors,
                 out, exitCode, access>>

KernelFinish ==
  /\ pc = "wait"
  /\ kernel = "copy_kernel_vectorized"
  /\ AllLanesDone
  /\ pc' = "kdone"
  /\ UNCHANGED <<cfg, kernel, h_S, h_D, d_S, d_D, d_N, lanes, gridDim, blockDim,
                 launches, log, i, errors, out, exitCode, access>>

KernelNext ==
  \/ Launch
  \/ \E l \in DOMAIN lanes : LaneLoad(l)
  \/ \E l \in DOMAIN lanes : LaneStore(l)
  \/ KernelSwitch
  \/ KernelFinish

KernelSpec == KernelInit /\ [][KernelNext]_vars

----------------------------------------------------------------------------
\* Specification of the verification loop on an arbitrary device result

VerifyCfg ==
  [m |-> VerifyLen, n |-> 1, M |-> 1, N |-> 1, TM |-> 1, TN |-> 1, VM |-> 1, VN |-> VecN]

VerifyInit ==
  /\ cfg = VerifyCfg
  /\ pc = "copyback"
  /\ kernel = "copy_kernel_vectorized"
  /\ h_S = [j \in 0..(Size(cfg) - 1) |-> j]
  /\ h_D = Zeros(cfg)
  /\ d_S = h_S
  /\ \E mis \in SUBSET (0..(Size(cfg) - 1)) :
       d_D = [j \in 0..(Size(cfg) - 1) |-> IF j \in mis THEN j + 1 ELSE j]
  /\ d_N = << >>
  /\ lanes = NoLanes
  /\ gridDim = <<0, 0>>
  /\ blockDim = 0
  /\ launches = 0
  /\ log = {}
  /\ i = 0
  /\ errors = 0
  /\ out = << >>
  /\ exitCode = Running
  /\ access = << >>

VerifyNext ==
  \/ CopyBack
  \/ VerifyStep
  \/ VerifyDone

VerifySpec == VerifyInit /\ [][VerifyNext]_vars

----------------------------------------------------------------------------
\* Specification of the vectorized accesses of the configuration built into main

\* Number of memory accesses one lane issues per copy
AccessesPerLane(c, kn) == Len(ThrPos(c, kn, 0)) \div AccessSize(c, kn)

\* Offsets covered by access a (1-based) of lane l
AccessOffsets(c, kn, l, a) ==
  LET offs == ThrOffsets(c, kn, l)
      w == AccessSize(c, kn)
  IN  [j \in 1..w |-> offs[(a - 1) * w + j]]

AccessInit ==
  /\ cfg = BuiltinCfg
  /\ pc = "wait"
  /\ kernel = "copy_kernel_vectorized"
  /\ h_S = << >>
  /\ h_D = << >>
  /\ d_S = << >>
  /\ d_D = << >>
  /\ d_N = << >>
  /\ lanes = NoLanes
  /\ gridDim = GridDim(cfg)
  /\ blockDim = BlockDim(cfg)
  /\ launches = 1
  /\ log = {}
  /\ i = 0
  /\ errors = 0
  /\ out = << >>
  /\ exitCode = Running
  /\ \E l \in LaunchLanes(gridDim, blockDim) : access = [lane |-> l, a |-> 0, offs |-> << >>]

\* The lane issues its next access (the same offsets on tile_S and on tile_D)
IssueAccess ==
  /\ access.a < AccessesPerLane(cfg, kernel)
  /\ access' = [lane |-> access.lane, a |-> access.a + 1,
                offs |-> AccessOffsets(cfg, kernel, access.lane, access.a + 1)]
  /\ UNCHANGED <<cfg, pc, kernel, h_S, h_D, d_S, d_D, d_N, lanes, gridDim, blockDim,
                 launches, log, i, errors, out, exitCode>>

AccessNext == IssueAccess

AccessSpec == AccessInit /\ [][AccessNext]_vars

----------------------------------------------------------------------------
\* Observations used by the properties

\* Work group (x, y)'s tile contains linear offset o
InTile(c, x, y, o) == ((o % c.m) \div c.M = x) /\ ((o \div c.m) \div c.N = y)

\* Indices at which the host vectors differ
Mis == {j \in DOMAIN h_S : h_S[j] # h_D[j]}

\* The elements of a finite set of integers in increasing order
Sorted(S) ==
  [k \in 1..Cardinality(S) |-> CHOOSE x \in S : Cardinality({y \in S : y < x}) = k - 1]

\* Indices of the mismatch lines printed so far, in print order
ErrorLines == SelectSeq(out, LAMBDA e : e.kind = "Error")
ReportedIdx == [k \in 1..Len(ErrorLines) |-> ErrorLines[k].idx]

Printed(kind) == \E k \in 1..Len(out) : out[k].kind = kind

NotDivisible == (cfg.m % cfg.M # 0) \/ (cfg.n % cfg.N # 0)

\* The lanes of the built-in launch and the set of offsets their partitions hold
BuiltinLanes == LaunchLanes(GridDim(BuiltinCfg), BlockDim(BuiltinCfg))
BuiltinOffsets ==
  UNION {LET offs == ThrOffsets(BuiltinCfg, "copy_kernel_vectorized", l)
         IN  {offs[k] : k \in DOMAIN offs} : l \in BuiltinLanes}

----------------------------------------------------------------------------
\* The built-in shapes pass both tests of main, and the 4096 lanes of the launch,
\* 32 elements each, hold between them exactly the offsets 0..131071
BuiltinArithmetic ==
  /\ ~ShapeRejected(BuiltinCfg)
  /\ evenly_divides(BuiltinCfg)
  /\ Size(BuiltinCfg) = 131072
  /\ Cardinality(BuiltinLanes) = 4096
  /\ Len(ThrPos(BuiltinCfg, "copy_kernel_vectorized", 0)) = 32
  /\ BuiltinOffsets = 0..131071

----------------------------------------------------------------------------
\* C1: when the array extent is an exact multiple of the tile extent, then once
\* every lane of the launched kernel has finished, the destination buffer equals
\* the source buffer at every index, whatever order the lanes took their load
\* and store steps in.
C1_CopyIsExact ==
  (launches = 1 /\ AllLanesDone /\ cfg.m % cfg.M = 0 /\ cfg.n % cfg.N = 0)
    => \A j \in 0..(cfg.m * cfg.n - 1) : d_D[j] = d_S[j]

C1_Witness ==
  /\ launches = 1
  /\ AllLanesDone
  /\ gridDim = <<2, 1>>
  /\ blockDim = 2
  /\ cfg.m * cfg.n > 4
  /\ \A j \in 0..(cfg.m * cfg.n - 1) : d_D[j] = j

\* C2: when an array extent is not a multiple of the tile extent, main prints
\* the precondition message and returns -1; it never launches, waits or
\* verifies.  The example of the claim, array (100, 100) with tile (128, 64),
\* is rejected by the test of main.
C2_NotDivisibleExits ==
  /\ ShapeRejected([BuiltinCfg EXCEPT !.m = 100, !.n = 100])
  /\ NotDivisible =>
       /\ pc \in {"init", "check", "exit"}
       /\ launches = 0
       /\ lanes = NoLanes
       /\ log = {}
       /\ ~Printed("Success.")
       /\ pc = "exit" =>
            /\ exitCode = 0 - 1
            /\ out = <<Msg("The tensor shape must be divisible by the block shape.")>>

C2_Witness ==
  /\ pc = "exit"
  /\ cfg.m % cfg.M = 0
  /\ cfg.n % cfg.N # 0
  /\ cfg.n < cfg.N
  /\ exitCode = 0 - 1
  /\ launches = 0

\* C3 (as claimed): if destination and source differ at exactly k indices with
\* 0 < k < 10, all k mismatches are reported and the exit status is nonzero.
C3_FewMismatchesFail ==
  (pc = "exit" /\ 0 < Cardinality(Mis) /\ Cardinality(Mis) < 10)
    => (ReportedIdx = Sorted(Mis) /\ exitCode # 0)

\* C4: if destination and source differ at 10 or more indices, exactly the 10
\* lowest mismatching indices are reported, in increasing order; the loop stops
\* at the 10th mismatch and never examines a later index; "Success." is never
\* printed and main returns -1.
C4_TenReportedThenAbort ==
  (pc \in {"verify", "exit"} /\ Cardinality(Mis) >= 10) =>
    LET first == SubSeq(Sorted(Mis), 1, 10)
    IN  /\ i <= first[10]
        /\ ~Printed("Success.")
        /\ Len(ReportedIdx) <= 10
        /\ ReportedIdx = SubSeq(first, 1, Len(ReportedIdx))
        /\ pc = "exit" =>
             /\ ReportedIdx = first
             /\ i = first[10]
             /\ errors = 10
             /\ exitCode = 0 - 1

C4_Witness ==
  /\ pc = "exit"
  /\ Cardinality(Mis) > 10
  /\ Len(ReportedIdx) = 10
  /\ i < Size(cfg) - 1
  /\ i + 1 \in Mis
  /\ exitCode = 0 - 1

\* C5: copy_kernel and copy_kernel_vectorized, run on the same source with the
\* same tile shape and thread arrangement, leave the same destination contents
\* at every index.
C5_KernelsAgree ==
  pc = "kdone" => \A j \in 0..(cfg.m * cfg.n - 1) : d_N[j] = d_D[j]

C5_Witness ==
  /\ pc = "kdone"
  /\ cfg.VM > 1
  /\ cfg.TM > 1
  /\ launches = 2
  /\ NaivePos(cfg, 0) # VecPos(cfg, 0)
  /\ d_N = d_D

\* C6: the configuration built into main, array (256, 512), tile (128, 64),
\* threads (32, 8), vector (4, 1), passes both divisibility tests, and its 4096
\* lanes of 32 elements each hold between them every offset 0..131071; a run of
\* main whose shape passes the tests, with S[i] = i and a zeroed destination,
\* launches the kernel once, finds no mismatch, prints "Success." and nothing
\* else, and returns 0; it never stops before returning.
C6_BuiltinRunSucceeds ==
  /\ BuiltinArithmetic
  /\ ~NotDivisible =>
       /\ pc # "init" => (\A j \in DOMAIN h_S : h_S[j] = j /\ d_S[j] = j)
       /\ pc \in {"check", "check2", "launch"} => (\A j \in DOMAIN d_D : d_D[j] = 0)
       /\ pc \in {"wait", "copyback", "verify", "exit"} => launches = 1
       /\ pc \in {"verify", "exit"} => (errors = 0 /\ Mis = {})
       /\ pc # "exit" => (exitCode = Running /\ out = << >> /\ ENABLED Next)
       /\ pc = "exit" => (out = <<Msg("Success.")>> /\ exitCode = 0)

C6_Witness ==
  /\ pc = "exit"
  /\ exitCode = 0
  /\ out = <<Msg("Success.")>>
  /\ cfg.TM = 2
  /\ cfg.VM = 2
  /\ cfg.N > cfg.TN
  /\ gridDim[1] * gridDim[2] = 2
  /\ launches = 1

\* C7: main dispatches one kernel invocation; its grid is (m / M, n / N) and its
\* work-group size is the lane count of the thread arrangement (256 for the
\* built-in (32, 8)); the lanes of work group (x, y) touch tile (x, y) only, and
\* once the kernel has completed every tile has been worked on by exactly one
\* work group.
C7_OneLaunchOneGroupPerTile ==
  /\ BlockDim(BuiltinCfg) = 256
  /\ GridDim(BuiltinCfg) = <<2, 8>>
  /\ launches <= 1
  /\ pc \in {"wait", "copyback", "verify"} => launches = 1
  /\ launches = 1 =>
       /\ gridDim = <<cfg.m \div cfg.M, cfg.n \div cfg.N>>
       /\ blockDim = cfg.TM * cfg.TN
       /\ DOMAIN lanes =
            {<<x, y, t>> : x \in 0..(cfg.m \div cfg.M - 1),
                           y \in 0..(cfg.n \div cfg.N - 1),
                           t \in 0..(cfg.TM * cfg.TN - 1)}
       /\ \A e \in log : InTile(cfg, e.lane[1], e.lane[2], e.off)
       /\ AllLanesDone =>
            \A tx \in 0..(cfg.m \div cfg.M - 1), ty \in 0..(cfg.n \div cfg.N - 1) :
              {<<e.lane[1], e.lane[2]>> : e \in {f \in log : InTile(cfg, tx, ty, f.off)}}
                = {<<tx, ty>>}

C7_Witness ==
  /\ launches = 1
  /\ AllLanesDone
  /\ gridDim = <<1, 2>>
  /\ blockDim = 2
  /\ cfg.TN = 2
  /\ Cardinality(log) = 2 * Size(cfg)

\* C8: within a tile the position sets the partition assigns to the lanes are
\* pairwise disjoint and cover the tile; across a launch no destination offset
\* is written by two different lanes, after completion every offset has been
\* written, and no lane reads a location another lane writes.
C8_PartitionDisjointCover ==
  /\ \A t1, t2 \in 0..(cfg.TM * cfg.TN - 1) :
       t1 # t2 =>
         {ThrPos(cfg, kernel, t1)[k] : k \in DOMAIN ThrPos(cfg, kernel, t1)}
           \cap {ThrPos(cfg, kernel, t2)[k] : k \in DOMAIN ThrPos(cfg, kernel, t2)} = {}
  /\ UNION {{ThrPos(cfg, kernel, t)[k] : k \in DOMAIN ThrPos(cfg, kernel, t)} :
              t \in 0..(cfg.TM * cfg.TN - 1)}
       = (0..(cfg.M - 1)) \X (0..(cfg.N - 1))
  /\ \A e2 \in {f \in log : f.kind = "write"} :
       \A e1 \in log :
         (e1.kernel = e2.kernel /\ e1.buf = e2.buf /\ e1.off = e2.off)
           => e1.lane = e2.lane
  /\ (pc = "wait" /\ lanes # NoLanes /\ AllLanesDone) =>
       {e.off : e \in {f \in log : f.kernel = kernel /\ f.kind = "write"}}
         = 0..(cfg.m * cfg.n - 1)

C8_Witness ==
  /\ pc = "kdone"
  /\ gridDim = <<1, 2>>
  /\ blockDim = 2
  /\ cfg.M * cfg.N > 2
  /\ Cardinality({e \in log : e.kind = "write"}) = 2 * Size(cfg)

\* C9: the host copies the destination buffer back and runs the verification
\* loop only after every lane of every work group has finished its store.
C9_HostReadsAfterCompletion ==
  (pc \in {"copyback", "verify"} \/ (pc = "exit" /\ launches = 1))
    => (lanes # NoLanes /\ \A l \in DOMAIN lanes : lanes[l].pc = "done")

C9_Witness ==
  /\ pc = "verify"
  /\ i = 0
  /\ Cardinality(DOMAIN lanes) = 4
  /\ \A l \in DOMAIN lanes : lanes[l].pc = "done"
  /\ h_D = d_D

\* C10: in the built-in configuration every vectorized access of every lane of
\* every work group starts at a linear offset that is a multiple of 4 and covers
\* 4 consecutive offsets, all inside the work group's tile and inside 0..131071.
C10_AccessesAlignedInTile ==
  access.a > 0 =>
    /\ Len(access.offs) = 4
    /\ access.offs[1] % 4 = 0
    /\ \A j \in 1..4 :
         /\ access.offs[j] = access.offs[1] + (j - 1)
         /\ InTile(cfg, access.lane[1], access.lane[2], access.offs[j])
         /\ access.offs[j] \in 0..131071

C10_Witness ==
  /\ access.lane = <<1, 7, 255>>
  /\ access.a = 8
  /\ access.offs = <<131068, 131069, 131070, 131071>>

====
